---- MODULE Spec2Model ----
(***************************************************************************)
(* Model of src/src/ksym_mod.c (sysklogd): the kernel module symbol table. *)
(*                                                                         *)
(*   InitMsyms          load:    FreeModules, then one AddSymbol per line  *)
(*                               of /proc/kallsyms, then qsort per module  *)
(*   FreeModules        clear                                              *)
(*   LookupModuleSymbol resolve                                            *)
(*                                                                         *)
(* Text is modelled character by character: a C string is a sequence of    *)
(* one-character strings, a buffer is such a sequence that holds NUL       *)
(* terminators, and a position in a buffer is a 1-based index (0 is the    *)
(* NULL pointer).  A char* value that is not a string is one of the        *)
(* one-element sequences NULL, FREED (memory already given to free) and    *)
(* UNINIT (memory never written).                                          *)
(***************************************************************************)
EXTENDS Integers, Sequences, FiniteSets, TLC

\* ------------------------------------------------------------------ bounds
\* Most lines one load accepts.
MaxLines == 3
\* Width in bits of unsigned long (64 in the build, scaled down).
AddrBits == 4
\* Queries are drawn from 0..MaxQuery.
MaxQuery == 3
\* Most allocation failures in one behaviour of SpecOOM.
MaxFailures == 1
\* Most lines one load accepts in SpecOOM.
MaxLinesOOM == 2

\* ------------------------------------------------------- program constants
\* static char ret[100]
RetSize == 100

AddrMod == 2 ^ AddrBits
ULONG_MAX == AddrMod - 1

NUL == "NUL"
NULL == <<"NULL">>
FREED == <<"FREED">>
UNINIT == <<"UNINIT">>

VARIABLES
    sym_array_modules,  \* the module array: records [name, sym_array, num_syms]
    have_modules,       \* static int have_modules
    lastmodule,         \* static char *lastmodule of AddSymbol
    num_syms,           \* extern int num_syms (the static symbol count)
    pc,                 \* "idle", "loading" (inside InitMsyms' fgets loop), "undefined"
    line,               \* the line fgets returned last in the current load
    accepted,           \* the lines behind the table: those of the current load
                        \* for which AddSymbol returned 1
    prevLast,           \* the name of the last module of the table the current
                        \* load freed as it began (NULL: the table was empty)
    rtn,                \* InitMsyms' last return value (-1: never returned)
    res,                \* what the last LookupModuleSymbol call handed its caller
    failed,             \* an allocation failed during the current load
    nfail               \* allocation failures so far

vars == <<sym_array_modules, have_modules, lastmodule, num_syms, pc, line,
          accepted, prevLast, rtn, res, failed, nfail>>

num_modules == Len(sym_array_modules)

\* ------------------------------------------------------------ C strings
Min(S) == CHOOSE x \in S : \A y \in S : x <= y
Max(S) == CHOOSE x \in S : \A y \in S : x >= y

isspace(c) == c \in {" ", "\t", "\n", "\r", "\f"}

\* The position of the terminator of the string that starts at p.
StrEnd(b, p) == Min({i \in p..Len(b) : b[i] = NUL})

strlen(b, p) == StrEnd(b, p) - p

\* index(3): the first c in the string at p, 0 (NULL) when there is none.
index(b, p, c) ==
    LET hits == {i \in p..(StrEnd(b, p) - 1) : b[i] = c}
    IN IF hits = {} THEN 0 ELSE Min(hits)

\* The string at p, as a value (what strdup copies, what %s prints).
CStr(b, p) == SubSeq(b, p, StrEnd(b, p) - 1)

HexDigits == <<"0", "1", "2", "3", "4", "5", "6", "7",
               "8", "9", "a", "b", "c", "d", "e", "f">>

IsHex(c) == \E d \in 1..16 : HexDigits[d] = c

HexVal(c) == (CHOOSE d \in 1..16 : HexDigits[d] = c) - 1

\* strtoul(b, NULL, 16): the hexadecimal digits at the start of b, ULONG_MAX
\* when the value does not fit.
RECURSIVE strtoulFrom(_, _, _)
strtoulFrom(b, p, acc) ==
    IF p > Len(b) \/ ~IsHex(b[p]) THEN acc
    ELSE LET v == acc * 16 + HexVal(b[p])
         IN strtoulFrom(b, p + 1, IF v > ULONG_MAX THEN ULONG_MAX ELSE v)

strtoul(b) == strtoulFrom(b, 1, 0)

\* fgets(buf, sizeof(buf), ksyms): the line, its newline kept, and the terminator.
fgets(l) == l \o <<NUL>>

\* ------------------------------------------------------------- the table
\* One struct sym_table.
Entry(name, value) == [name |-> name, value |-> value]

\* An element of a block that malloc/realloc returned and nobody wrote yet.
UninitEntry == [name |-> UNINIT, value |-> 0]

\* realloc(arr, n * sizeof(struct sym_table)), succeeding: the old elements,
\* then unwritten ones.  The NULL array is <<>> (a real block has an element).
realloc(arr, n) ==
    [i \in 1..n |-> IF i <= Len(arr) THEN arr[i] ELSE UninitEntry]

\* The first num_syms elements of the module's array are there and written.
ValidModule(m) ==
    /\ Len(m.sym_array) >= m.num_syms
    /\ \A i \in 1..m.num_syms : m.sym_array[i].name \notin {UNINIT, NULL}

\* Which allocation of one AddSymbol call fails.
FailKinds == {"none", "module", "modname", "symarray", "symname"}

\* AddModule: the array with one more Module and its 1-based index (mp),
\* or mp = 0 when the array cannot grow.
AddModule(mods, module, fail) ==
    IF fail = "module"
    THEN [mods |-> mods, mp |-> 0]
    ELSE [mods |-> Append(mods,
                      [name |-> IF module # NULL /\ fail # "modname"
                                THEN module ELSE NULL,
                       sym_array |-> <<>>,
                       num_syms |-> 0]),
          mp |-> Len(mods) + 1]

\* NewGroup with the two tests against NULL left out: only two different
\* names open a new Module.
NewGroup_namesOnly(mods, last, module, ub) ==
    \/ Len(mods) = 0
    \/ (module # NULL /\ last # NULL /\ module # last)

\* strcmp(a, b), of which the code uses only whether it is 0.  Reading freed
\* memory is undefined: the result is then ub, chosen by the caller.
strcmp(a, b, ub) ==
    IF b \in {FREED, UNINIT} THEN ub ELSE IF a = b THEN 0 ELSE 1

\* The condition of AddSymbol under which the line opens a new Module.
NewGroup(mods, last, module, ub) ==
    \/ Len(mods) = 0
    \/ (last = NULL /\ module # NULL)
    \/ (module = NULL /\ last # NULL)
    \/ (module # NULL /\ strcmp(module, last, ub) # 0)

\* while (isspace(*(--p))) ; from p = br: the last non-blank before br.
\* (0 when there is none: the code then reads in front of the buffer; no line
\* of Lines is of that form.)
LastNonSpace(b, br) ==
    LET S == {i \in 1..(br - 1) : ~isspace(b[i])}
    IN IF S = {} THEN 0 ELSE Max(S)

\* AddSymbol's cut of the "[module]" annotation: the buffer after it.
CutModule(b) ==
    LET br == index(b, 1, "[")
    IN IF br = 0 THEN b
       ELSE LET cl == index(b, br, "]")
                a == IF cl # 0 THEN [b EXCEPT ![cl] = NUL] ELSE b
            IN [a EXCEPT ![LastNonSpace(a, br) + 1] = NUL]

\* The string p points at after p += 3.
SymbolName(b, sp) ==
    IF sp + 3 > Len(b) THEN UNINIT ELSE CStr(b, sp + 3)

\* AddSymbol(line): the table and lastmodule after the call, its return
\* value rc and whether the allocation named by fail was made and failed.
AddSymbol(mods, last, b0, fail, ub) ==
    LET br == index(b0, 1, "[")
        b1 == CutModule(b0)
        module == IF br = 0 THEN NULL ELSE CStr(b1, br + 1)
        sp == index(b1, 1, " ")
        b2 == [b1 EXCEPT ![sp] = NUL]
        address == strtoul(b2)
        grp == NewGroup(mods, last, module, ub)
        am == IF grp THEN AddModule(mods, module, fail)
              ELSE [mods |-> mods, mp |-> Len(mods)]
        mp == am.mp
        m == am.mods[mp]
        arr == realloc(m.sym_array, m.num_syms + 1)
        \* strdup(module) returned NULL: AddModule stores it and goes on.
        nomem == grp /\ fail = "modname" /\ module # NULL
    IN IF sp = 0
       THEN [mods |-> mods, last |-> last, rc |-> 0, oom |-> FALSE]
       ELSE IF mp = 0
       THEN [mods |-> mods, last |-> last, rc |-> 0, oom |-> TRUE]
       ELSE IF fail = "symarray"
       THEN [mods |-> [am.mods EXCEPT ![mp].sym_array = <<>>],
             last |-> m.name, rc |-> 0, oom |-> TRUE]
       ELSE IF fail = "symname"
       THEN [mods |-> [am.mods EXCEPT ![mp].sym_array =
                          [arr EXCEPT ![m.num_syms + 1].name = NULL]],
             last |-> m.name, rc |-> 0, oom |-> TRUE]
       ELSE [mods |-> [am.mods EXCEPT
                          ![mp].sym_array =
                              [arr EXCEPT ![m.num_syms + 1] =
                                  Entry(SymbolName(b2, sp), address)],
                          ![mp].num_syms = m.num_syms + 1],
             last |-> m.name, rc |-> 1, oom |-> nomem]

\* Filtered without the test of the count.
Filtered_anyCount(nsyms, buf) == index(buf, 1, "[") = 0

\* InitMsyms' filter on the static symbol count.
Filtered(nsyms, buf) == nsyms > 0 /\ index(buf, 1, "[") = 0

\* The body of InitMsyms' while loop for the buffer fgets filled.
InitMsymsLine(mods, last, nsyms, buf, fail, ub) ==
    IF Filtered(nsyms, buf) \/ index(buf, 1, " ") = 0
    THEN [mods |-> mods, last |-> last, rc |-> 0, oom |-> FALSE]
    ELSE LET n == strlen(buf, 1)
         IN AddSymbol(mods, last,
                      IF buf[n] = "\n" THEN [buf EXCEPT ![n] = NUL] ELSE buf,
                      fail, ub)

\* symsort with its results exchanged.
symsort_reversed(sym1, sym2) ==
    IF sym1.value < sym2.value THEN 1
    ELSE IF sym1.value = sym2.value THEN 0 ELSE -1

\* symsort: qsort's comparison.
symsort(sym1, sym2) ==
    IF sym1.value < sym2.value THEN -1
    ELSE IF sym1.value = sym2.value THEN 0 ELSE 1

RemoveAt(s, i) == SubSeq(s, 1, i - 1) \o SubSeq(s, i + 1, Len(s))

\* qsort(arr, n, ..., symsort): every arrangement of arr that symsort orders
\* (the order of elements that compare equal is the library's choice).
RECURSIVE qsort(_)
qsort(arr) ==
    IF arr = <<>> THEN {<<>>}
    ELSE UNION {{<<arr[i]>> \o t : t \in qsort(RemoveAt(arr, i))} :
                i \in {j \in 1..Len(arr) :
                          \A k \in 1..Len(arr) : symsort(arr[j], arr[k]) <= 0}}

\* InitMsyms' sort of one module.
SortModule(m) ==
    IF m.num_syms < 2 THEN {m}
    ELSE {[m EXCEPT !.sym_array =
              s \o SubSeq(m.sym_array, m.num_syms + 1, Len(m.sym_array))] :
          s \in qsort(SubSeq(m.sym_array, 1, m.num_syms))}

\* InitMsyms' loop over the modules: the tables qsort may leave.
RECURSIVE SortModules(_, _)
SortModules(mods, k) ==
    IF k = 0 THEN {<<>>}
    ELSE {Append(pre, m) : pre \in SortModules(mods, k - 1),
                           m \in SortModule(mods[k])}

\* FreeModules returning before it frees anything.
FreeModules_keeps(mods, last) ==
    [mods |-> mods, last |-> last, undefined |-> FALSE]

\* FreeModules: the table and lastmodule after it.  It frees a module's
\* symbols and name only when num_syms # 0, and lastmodule points at the
\* name of the last module.  undefined: it passes free() an unwritten
\* pointer or indexes a NULL array.
FreeModules(mods, last) ==
    IF Len(mods) = 0
    THEN [mods |-> mods, last |-> last, undefined |-> FALSE]
    ELSE [mods |-> <<>>,
          last |-> IF last # NULL /\ mods[Len(mods)].num_syms # 0
                   THEN FREED ELSE last,
          undefined |-> \E k \in 1..Len(mods) :
                           \/ Len(mods[k].sym_array) < mods[k].num_syms
                           \/ \E i \in 1..mods[k].num_syms :
                                 mods[k].sym_array[i].name = UNINIT]

\* ------------------------------------------------------------- the lookup
\* A value stored in sym->offset or sym->size.  struct symbol is declared in
\* ksyms.h, which is not among the sources: the fields are unsigned integers
\* of the width of an address, as the query interface describes them.
SymField(x) == x % AddrMod

\* Unsigned long subtraction.
USub(a, b) == (a - b + AddrMod) % AddrMod

\* snprintf(ret, sizeof(ret) - 1, ...): what fits in front of the terminator.
snprintf(str) == SubSeq(str, 1, IF Len(str) < RetSize - 2 THEN Len(str) ELSE RetSize - 2)

\* The text LookupModuleSymbol prints for symbol last of module mp.
Label(mp, last) ==
    IF mp.name = NULL THEN snprintf(last.name)
    ELSE snprintf(mp.name \o <<":">> \o last.name)

\* FirstAbove with >= for >.
FirstAbove_orEqual(mp, value) ==
    LET hits == {i \in 2..mp.num_syms : mp.sym_array[i].value >= value}
    IN IF hits = {} THEN 0 ELSE Min(hits)

\* The inner for loop's exit: the first nsym >= 1 (C index; here nsym + 1)
\* with sym_array[nsym].value > value, 0 when the loop runs to its end.
FirstAbove(mp, value) ==
    LET hits == {i \in 2..mp.num_syms : mp.sym_array[i].value > value}
    IN IF hits = {} THEN 0 ELSE Min(hits)

\* The test under which the symbol found in a module replaces the result.
Better(sym, offset, size) ==
    \/ sym.size = 0
    \/ offset < sym.offset
    \/ (sym.offset = offset /\ size < sym.size)

\* One pass of the loop over the modules.
LookupInModule(sym, mp, value) ==
    LET i == FirstAbove(mp, value)
        last == mp.sym_array[i - 1]
        offset == USub(value, last.value)
        size == USub(mp.sym_array[i].value, last.value)
    IN IF i # 0 /\ Better(sym, offset, size)
       THEN [offset |-> SymField(offset), size |-> SymField(size),
             ret |-> Label(mp, last)]
       ELSE sym

RECURSIVE LookupLoop(_, _, _, _)
LookupLoop(sym, mods, nmod, value) ==
    IF nmod > Len(mods) THEN sym
    ELSE LookupLoop(LookupInModule(sym, mods[nmod], value), mods, nmod + 1, value)

\* LookupModuleSymbol(value, sym): the returned pointer (ret's text, or NULL)
\* and the caller's sym.
LookupModuleSymbol(mods, value) ==
    LET sym == LookupLoop([offset |-> 0, size |-> 0, ret |-> NULL], mods, 1, value)
    IN [value |-> value, offset |-> sym.offset, size |-> sym.size,
        ret |-> IF sym.size > 0 THEN sym.ret ELSE NULL]

\* No call yet (or the table changed since).
NoResult == [value |-> -1, offset |-> 0, size |-> 0, ret |-> NULL]

\* ------------------------------------------------------------- the input
\* Lines of /proc/kallsyms, "<hex address> <type> <name>[\t[<module>]]\n",
\* and such lines cut short: after the type field, and in front of the first
\* space.  Every line fits the buffer and starts with a digit, and its first
\* space stands in front of any bracket.  A file may hold a line more than
\* once, and two of the lines without a module share an address.
Lines == {
    <<"1", " ", "T", " ", "a", "\t", "[", "m", "]", "\n">>,
    <<"2", " ", "T", " ", "b", "\t", "[", "m", "]", "\n">>,
    <<"2", " ", "T", " ", "b", "\t", "[", "n", "]", "\n">>,
    <<"1", " ", "T", " ", "a", "\n">>,
    <<"1", " ", "T", " ", "\n">>,
    <<"3", " ", "T", "\n">>,
    <<"2", "T", "\n">> }

\* ------------------------------------------------------------- the actions
Init ==
    /\ sym_array_modules = <<>>
    /\ have_modules = 0
    /\ lastmodule = NULL
    /\ num_syms \in 0..1
    /\ pc = "idle"
    /\ line = <<>>
    /\ accepted = <<>>
    /\ prevLast = NULL
    /\ rtn = -1
    /\ res = NoResult
    /\ failed = FALSE
    /\ nfail = 0

\* InitMsyms up to its while loop: FreeModules, then fopen, which may fail
\* (return 0).  ksym.c may have changed num_syms since the last load.
LoadStart ==
    /\ pc = "idle"
    /\ \E n \in 0..1, opened \in BOOLEAN :
        LET f == FreeModules(sym_array_modules, lastmodule)
        IN /\ num_syms' = n
           /\ sym_array_modules' = f.mods
           /\ lastmodule' = f.last
           /\ have_modules' = 0
           /\ pc' = IF f.undefined THEN "undefined"
                    ELSE IF opened THEN "loading" ELSE "idle"
           /\ rtn' = IF f.undefined THEN rtn ELSE IF opened THEN rtn ELSE 0
           /\ prevLast' = IF num_modules = 0 THEN NULL
                          ELSE sym_array_modules[num_modules].name
    /\ line' = <<>>
    /\ accepted' = <<>>
    /\ res' = NoResult
    /\ failed' = FALSE
    /\ UNCHANGED nfail

\* One pass of the while loop: fgets returns a line.
LoadLine(mayFail, maxLines) ==
    /\ pc = "loading"
    /\ \E l \in Lines,
          fail \in (IF mayFail /\ nfail < MaxFailures THEN FailKinds ELSE {"none"}),
          ub \in (IF lastmodule = FREED THEN {0, 1} ELSE {0}) :
        LET r == InitMsymsLine(sym_array_modules, lastmodule, num_syms,
                               fgets(l), fail, ub)
        IN /\ r.oom = (fail # "none")
           /\ r.rc = 1 => Len(accepted) < maxLines
           /\ line' = l
           /\ sym_array_modules' = r.mods
           /\ lastmodule' = r.last
           /\ accepted' = IF r.rc = 1 THEN Append(accepted, l) ELSE accepted
           /\ failed' = (failed \/ r.oom)
           /\ nfail' = IF r.oom THEN nfail + 1 ELSE nfail
    /\ UNCHANGED <<have_modules, num_syms, pc, prevLast, rtn, res>>

\* fgets returns NULL: fclose, have_modules = 1, the sort of every module,
\* return 1.  qsort over a NULL array or unwritten elements is undefined.
LoadEnd ==
    /\ pc = "loading"
    /\ IF \E k \in 1..num_modules :
             /\ sym_array_modules[k].num_syms >= 2
             /\ ~ValidModule(sym_array_modules[k])
       THEN /\ pc' = "undefined"
            /\ UNCHANGED <<sym_array_modules, rtn>>
       ELSE /\ sym_array_modules' \in SortModules(sym_array_modules, num_modules)
            /\ pc' = "idle"
            /\ rtn' = 1
    /\ have_modules' = 1
    /\ line' = <<>>
    /\ UNCHANGED <<lastmodule, num_syms, accepted, prevLast, res, failed, nfail>>

\* A call of LookupModuleSymbol.
Lookup ==
    /\ pc = "idle"
    /\ \E value \in 0..MaxQuery :
        res' = LookupModuleSymbol(sym_array_modules, value)
    /\ UNCHANGED <<sym_array_modules, have_modules, lastmodule, num_syms, pc,
                   line, accepted, prevLast, rtn, failed, nfail>>

\* A call of FreeModules on its own (main's, before it returns).
Clear ==
    /\ pc = "idle"
    /\ LET f == FreeModules(sym_array_modules, lastmodule)
       IN /\ sym_array_modules' = f.mods
          /\ lastmodule' = f.last
          /\ pc' = IF f.undefined THEN "undefined" ELSE "idle"
    /\ have_modules' = 0
    /\ accepted' = <<>>
    /\ res' = NoResult
    /\ UNCHANGED <<num_syms, line, prevLast, rtn, failed, nfail>>

Next == LoadStart \/ LoadLine(FALSE, MaxLines) \/ LoadEnd \/ Lookup \/ Clear

Spec == Init /\ [][Next]_vars

\* The same program where malloc, realloc and strdup may return NULL.
NextOOM == LoadStart \/ LoadLine(TRUE, MaxLinesOOM) \/ LoadEnd \/ Lookup \/ Clear

SpecOOM == Init /\ [][NextOOM]_vars

\* ------------------------------------------------------------- the claims
\* What the claims say of a line of input, read off the line as it was
\* written (the newline included), not off AddSymbol's buffer.
RefHasSpace(l) == \E i \in 1..Len(l) : l[i] = " "

RefHasBracket(l) == \E i \in 1..Len(l) : l[i] = "["

RefFirst(l, c) == Min({i \in 1..Len(l) : l[i] = c})

\* The module named between the brackets, NULL for a line without.
RefModule(l) ==
    IF ~RefHasBracket(l) THEN NULL
    ELSE SubSeq(l, RefFirst(l, "[") + 1, RefFirst(l, "]") - 1)

RECURSIVE RefHex(_, _)
RefHex(l, k) == IF k = 0 THEN 0 ELSE RefHex(l, k - 1) * 16 + HexVal(l[k])

\* The address: the hexadecimal number in front of the first space.
RefAddress(l) == RefHex(l, RefFirst(l, " ") - 1)

\* The name: what follows the two-character type field, up to the blanks
\* that end the line or stand before the bracket.
RefName(l) ==
    LET stop == IF RefHasBracket(l) THEN RefFirst(l, "[") ELSE Len(l) + 1
        text == {i \in 1..(stop - 1) : l[i] \notin {" ", "\t", "\n"}}
    IN SubSeq(l, RefFirst(l, " ") + 3, Max(text))

RefSymbol(l) == Entry(RefName(l), RefAddress(l))

\* The maximal runs of consecutive lines with the same module name.
RECURSIVE RefRuns(_)
RefRuns(ls) ==
    IF ls = <<>> THEN <<>>
    ELSE LET n == Len(ls)
             pre == RefRuns(SubSeq(ls, 1, n - 1))
         IN IF n > 1 /\ RefModule(ls[n - 1]) = RefModule(ls[n])
            THEN [pre EXCEPT ![Len(pre)].syms = Append(@, RefSymbol(ls[n]))]
            ELSE Append(pre, [name |-> RefModule(ls[n]),
                              syms |-> <<RefSymbol(ls[n])>>])

Count(x, s) == Cardinality({i \in 1..Len(s) : s[i] = x})

SameSymbols(s, t) ==
    /\ Len(s) = Len(t)
    /\ \A i \in 1..Len(s) : Count(s[i], s) = Count(s[i], t)

Symbols(m) == SubSeq(m.sym_array, 1, m.num_syms)

Sorted(m) ==
    \A i \in 1..(m.num_syms - 1) : m.sym_array[i].value <= m.sym_array[i + 1].value

Resolved == pc = "idle" /\ res.value >= 0

\* A module's candidate for query q, as the claims define it.
RefIndex(m, q) ==
    LET S == {i \in 2..m.num_syms : m.sym_array[i].value > q}
    IN IF S = {} THEN 0 ELSE Min(S)

RefCandidate(m, q) ==
    LET i == RefIndex(m, q)
        prev == m.sym_array[i - 1]
    IN [offset |-> (q - prev.value) % AddrMod,
        size |-> (m.sym_array[i].value - prev.value) % AddrMod,
        label |-> IF m.name = NULL THEN prev.name
                  ELSE m.name \o <<":">> \o prev.name]

RefCandidates(mods, q) ==
    {RefCandidate(mods[k], q) : k \in {j \in 1..Len(mods) : RefIndex(mods[j], q) # 0}}

RefLeast(c, S) ==
    \A d \in S : c.offset < d.offset \/ (c.offset = d.offset /\ c.size <= d.size)

\* C1: when some module yields a candidate, resolve returns the candidate
\* that is smallest by offset and then by size, with that candidate's label,
\* offset and size.  (Violated: a candidate of size 0 counts as no result.)
C1_ResolveReturnsLeast ==
    (Resolved /\ RefCandidates(sym_array_modules, res.value) # {}) =>
        /\ res.ret # NULL
        /\ \E c \in RefCandidates(sym_array_modules, res.value) :
              /\ RefLeast(c, RefCandidates(sym_array_modules, res.value))
              /\ res.offset = c.offset
              /\ res.size = c.size
              /\ res.ret = c.label

\* C2: once a load has returned, every module's symbols are in ascending
\* order of address, and stay so across resolve calls.
C2_SortedAfterLoad ==
    pc = "idle" => \A k \in 1..num_modules : Sorted(sym_array_modules[k])

\* C2's case: a loaded module whose lines came in descending order, after a
\* resolve call.
C2_Witness ==
    /\ Resolved
    /\ have_modules = 1
    /\ \E i \in 1..(Len(accepted) - 1) :
          /\ RefModule(accepted[i]) = RefModule(accepted[i + 1])
          /\ RefAddress(accepted[i]) > RefAddress(accepted[i + 1])

\* C3: after a load the modules are, in input order, the maximal runs of
\* consecutive accepted lines with the same module name, each holding the
\* symbols of its run; equal names in separate runs stay separate modules.
C3_GroupsAreRuns ==
    pc = "idle" =>
        LET runs == RefRuns(accepted)
        IN /\ num_modules = Len(runs)
           /\ \A k \in 1..Len(runs) :
                 /\ sym_array_modules[k].name = runs[k].name
                 /\ sym_array_modules[k].num_syms = Len(runs[k].syms)
                 /\ SameSymbols(Symbols(sym_array_modules[k]), runs[k].syms)

\* C3's case: one module name in two runs that are not adjacent.
C3_Witness ==
    /\ pc = "idle"
    /\ have_modules = 1
    /\ num_modules = 3
    /\ sym_array_modules[1].name = <<"m">>
    /\ sym_array_modules[2].name = NULL
    /\ sym_array_modules[3].name = <<"m">>

RECURSIVE SymsUpTo(_, _)
SymsUpTo(mods, k) ==
    IF k = 0 THEN 0 ELSE SymsUpTo(mods, k - 1) + mods[k].num_syms

\* The number of symbols in the table.
TotalSyms(mods) == SymsUpTo(mods, Len(mods))

RECURSIVE FreshLoad(_, _)
FreshLoad(ls, nsyms) ==
    IF ls = <<>> THEN [mods |-> <<>>, last |-> NULL]
    ELSE LET pre == FreshLoad(SubSeq(ls, 1, Len(ls) - 1), nsyms)
             r == InitMsymsLine(pre.mods, pre.last, nsyms,
                                fgets(ls[Len(ls)]), "none", 0)
         IN [mods |-> r.mods, last |-> r.last]

\* C5: whatever loads and clears came before, the table a load builds is the
\* one its lines and static symbol count give on a program that has done
\* nothing before: nothing is left of the previous table, and the name
\* lastmodule still points at never joins the first line to a module.
C5_LoadSupersedes ==
    LET fresh == FreshLoad(accepted, num_syms).mods
    IN /\ pc = "loading" => sym_array_modules = fresh
       /\ (pc = "idle" /\ have_modules = 1) =>
             sym_array_modules \in SortModules(fresh, Len(fresh))
       /\ (pc = "idle" /\ have_modules = 0) => sym_array_modules = <<>>

\* C5's case: the load before ended in module "m" and this one began with a
\* line of module "m".
C5_Witness ==
    /\ pc = "idle"
    /\ have_modules = 1
    /\ prevLast = <<"m">>
    /\ accepted # <<>>
    /\ RefModule(accepted[1]) = <<"m">>

\* C6: when an allocation failed during a load, the load returns 0 and
\* leaves every module with as many written symbols as it counts.
\* (Violated: InitMsyms ignores AddSymbol's return value.)
C6_AllocationFailureAborts ==
    (pc = "idle" /\ failed) =>
        /\ rtn = 0
        /\ \A k \in 1..num_modules : ValidModule(sym_array_modules[k])

\* C7: a resolve that returns no label reports offset 0 and size 0.
\* (Violated: a candidate of size 0 leaves its offset in the result.)
C7_NotFoundIsZero ==
    (Resolved /\ res.ret = NULL) => (res.offset = 0 /\ res.size = 0)

\* C8: when the query is at or above every symbol of every module that has
\* two or more symbols, resolve returns no label.
C8_AtOrAboveLastIsNotFound ==
    (Resolved /\ \A k \in 1..num_modules :
                    \/ sym_array_modules[k].num_syms < 2
                    \/ \A i \in 1..sym_array_modules[k].num_syms :
                          sym_array_modules[k].sym_array[i].value <= res.value)
        => res.ret = NULL

\* C8's case: the query is the address of the last symbol of a module whose
\* first symbol lies below it.
C8_Witness ==
    /\ Resolved
    /\ res.ret = NULL
    /\ \E k \in 1..num_modules :
          LET m == sym_array_modules[k]
          IN /\ m.num_syms >= 2
             /\ m.sym_array[m.num_syms].value = res.value
             /\ m.sym_array[1].value < res.value

\* C9: a label that resolve returns names a symbol at or below the query,
\* with the next symbol of its module above the query, and the offset is the
\* distance from that symbol and less than the size.
\* (Violated: a query below a module's first symbol.)
C9_FoundSymbolPrecedes ==
    (Resolved /\ res.ret # NULL) =>
        \E k \in 1..num_modules :
           \E i \in 1..(sym_array_modules[k].num_syms - 1) :
              LET m == sym_array_modules[k]
              IN /\ res.ret = Label(m, m.sym_array[i])
                 /\ m.sym_array[i].value <= res.value
                 /\ res.value < m.sym_array[i + 1].value
                 /\ res.offset = res.value - m.sym_array[i].value
                 /\ res.offset < res.size

\* C10: after a load every symbol has a name that is not empty.
\* (Violated: a line that ends with its type field.)
C10_NamesNotEmpty ==
    pc = "idle" =>
        \A k \in 1..num_modules :
           \A i \in 1..sym_array_modules[k].num_syms :
              sym_array_modules[k].sym_array[i].name # <<>>

====
